---- MODULE Spec2Model ----
(***************************************************************************)
(* Natural-language SQL assistant: the SQL safety validator (llm.py), the  *)
(* query executor and schema introspector (db.py) and the question loop    *)
(* (app.py).                                                               *)
(*                                                                         *)
(* Text is a sequence of one-character strings, so that trimming,          *)
(* lower-casing, prefix tests and the \b...\b searches are computed on     *)
(* characters, as the Python code computes them.                           *)
(***************************************************************************)
EXTENDS Integers, Sequences, FiniteSets, TLC

(***************************************************************************)
(* Bounds of the model.                                                    *)
(***************************************************************************)
\* pieces concatenated into a raw candidate (validator specification)
MaxPieces == 4
\* pieces concatenated into a response of the model (session specification)
MaxResponsePieces == 2
\* rows the database holds for a statement (executor specification)
MaxRows == 5
\* largest max_rows argument tried (executor specification)
MaxCap == 3
\* questions asked in one session
MaxQuestions == 2

(***************************************************************************)
(* Characters.                                                             *)
(***************************************************************************)
LowerLetters ==
    {"a","b","c","d","e","f","g","h","i","j","k","l","m",
     "n","o","p","q","r","s","t","u","v","w","x","y","z"}

UpperLetters ==
    {"A","B","C","D","E","F","G","H","I","J","K","L","M",
     "N","O","P","Q","R","S","T","U","V","W","X","Y","Z"}

Digits == {"0","1","2","3","4","5","6","7","8","9"}

\* the backtick character (a TLA+ string cannot hold it): an atom that is
\* neither whitespace, nor a word character, nor the separator
Backtick == "BACKTICK"

\* the characters str.strip() removes (ASCII part)
Whitespace == {" ", "\t", "\n", "\r"}

\* the characters \w matches (ASCII part); \b is a \w / non-\w border
WordChars == LowerLetters \cup UpperLetters \cup Digits \cup {"_"}

ToLower ==
    "A" :> "a" @@ "B" :> "b" @@ "C" :> "c" @@ "D" :> "d" @@ "E" :> "e" @@
    "F" :> "f" @@ "G" :> "g" @@ "H" :> "h" @@ "I" :> "i" @@ "J" :> "j" @@
    "K" :> "k" @@ "L" :> "l" @@ "M" :> "m" @@ "N" :> "n" @@ "O" :> "o" @@
    "P" :> "p" @@ "Q" :> "q" @@ "R" :> "r" @@ "S" :> "s" @@ "T" :> "t" @@
    "U" :> "u" @@ "V" :> "v" @@ "W" :> "w" @@ "X" :> "x" @@ "Y" :> "y" @@
    "Z" :> "z"

(***************************************************************************)
(* str methods used by the validator.                                      *)
(***************************************************************************)
\* str.lower()
Lower(s) == [i \in 1..Len(s) |-> IF s[i] \in UpperLetters THEN ToLower[s[i]] ELSE s[i]]

\* str.strip(chars): drop leading and trailing characters that are in chars
Strip(s, chars) ==
    LET keep == {i \in 1..Len(s) : s[i] \notin chars}
    IN  IF keep = {} THEN << >>
        ELSE LET first == CHOOSE i \in keep : \A j \in keep : i <= j
                 last  == CHOOSE i \in keep : \A j \in keep : j <= i
             IN  SubSeq(s, first, last)

\* str.rstrip(chars): drop trailing characters that are in chars
RStrip(s, chars) ==
    LET keep == {i \in 1..Len(s) : s[i] \notin chars}
    IN  IF keep = {} THEN << >>
        ELSE LET last == CHOOSE i \in keep : \A j \in keep : j <= i
             IN  SubSeq(s, 1, last)

\* str.startswith(prefix)
StartsWith(s, prefix) ==
    /\ Len(s) >= Len(prefix)
    /\ SubSeq(s, 1, Len(prefix)) = prefix

\* ch in s
Contains(s, ch) == \E i \in 1..Len(s) : s[i] = ch

\* s[:-1]
ButLast(s) == IF Len(s) = 0 THEN << >> ELSE SubSeq(s, 1, Len(s) - 1)

\* variant of ReSearchWord: the word delimited by whitespace, not by \b
ReSearchWord_Whitespace(word, s) ==
    \E i \in 1..(Len(s) - Len(word) + 1) :
        /\ SubSeq(s, i, i + Len(word) - 1) = word
        /\ (i = 1 \/ s[i - 1] \in Whitespace)
        /\ (i + Len(word) - 1 = Len(s) \/ s[i + Len(word)] \in Whitespace)

\* re.search(r"\bword\b", s): word occurs in s with a \w / non-\w border
\* (or an end of the text) on each side
ReSearchWord(word, s) ==
    \E i \in 1..(Len(s) - Len(word) + 1) :
        /\ SubSeq(s, i, i + Len(word) - 1) = word
        /\ (i = 1 \/ s[i - 1] \notin WordChars)
        /\ (i + Len(word) - 1 = Len(s) \/ s[i + Len(word)] \notin WordChars)

(***************************************************************************)
(* llm.py                                                                  *)
(***************************************************************************)
FORBIDDEN_SQL_PATTERNS ==
    << <<"i","n","s","e","r","t">>,
       <<"u","p","d","a","t","e">>,
       <<"d","e","l","e","t","e">>,
       <<"d","r","o","p">>,
       <<"a","l","t","e","r">>,
       <<"c","r","e","a","t","e">>,
       <<"t","r","u","n","c","a","t","e">>,
       <<"m","e","r","g","e">>,
       <<"e","x","e","c">>,
       <<"e","x","e","c","u","t","e">> >>

KwSelect == <<"s","e","l","e","c","t">>
KwWith == <<"w","i","t","h">>

MsgEmpty == "Model returned empty SQL."
MsgMultiple == "Multiple SQL statements are not allowed."
MsgOnlySelect == "Only SELECT queries are allowed."
MsgForbidden == "Forbidden SQL operation detected: "

\* outcome of a call: a returned text, or a raised LLMError with its message
\* (and, for the forbidden-operation message, the pattern formatted into it)
Returned(text) == [raised |-> FALSE, message |-> "", pattern |-> << >>, text |-> text]
Raised(msg, pat) == [raised |-> TRUE, message |-> msg, pattern |-> pat, text |-> << >>]

\* variant of Normalize: one backtick taken from each end
Normalize_OneLayer(sql) ==
    LET t == Strip(sql, Whitespace)
        u == IF t # << >> /\ Head(t) = Backtick THEN Tail(t) ELSE t
        v == IF u # << >> /\ u[Len(u)] = Backtick THEN ButLast(u) ELSE u
    IN  Strip(v, Whitespace)

\* normalized = sql.strip().strip(BACKTICK).strip()
Normalize(sql) == Strip(Strip(Strip(sql, Whitespace), {Backtick}), Whitespace)

\* variant of FirstForbidden: the loop stops one pattern short
FirstForbidden_SkipLast(lower) ==
    LET hits == {k \in 1..(Len(FORBIDDEN_SQL_PATTERNS) - 1) :
                    ReSearchWord(FORBIDDEN_SQL_PATTERNS[k], lower)}
    IN  IF hits = {} THEN 0
        ELSE CHOOSE k \in hits : \A j \in hits : k <= j

\* the for loop over FORBIDDEN_SQL_PATTERNS: index of the first pattern that
\* re.search finds in lower, 0 when none does
FirstForbidden(lower) ==
    LET hits == {k \in 1..Len(FORBIDDEN_SQL_PATTERNS) :
                    ReSearchWord(FORBIDDEN_SQL_PATTERNS[k], lower)}
    IN  IF hits = {} THEN 0
        ELSE CHOOSE k \in hits : \A j \in hits : k <= j

\* variant of HasInnerSeparator: ";" in lower
HasInnerSeparator_Whole(lower) == Contains(lower, ";")

\* ";" in lower[:-1]
HasInnerSeparator(lower) == Contains(ButLast(lower), ";")

\* variant of StartsReadOnly: select only
StartsReadOnly_SelectOnly(lower) == StartsWith(lower, KwSelect)

\* lower.startswith("select") or lower.startswith("with")
StartsReadOnly(lower) == StartsWith(lower, KwSelect) \/ StartsWith(lower, KwWith)

\* return normalized.rstrip(";")
StripSeparator(normalized) == RStrip(normalized, {";"})

validate_select_only_sql(sql) ==
    LET normalized == Normalize(sql)
        lower == Lower(normalized)
    IN  IF lower = << >> THEN Raised(MsgEmpty, << >>)
        ELSE IF HasInnerSeparator(lower) THEN Raised(MsgMultiple, << >>)
        ELSE IF ~StartsReadOnly(lower) THEN Raised(MsgOnlySelect, << >>)
        ELSE IF FirstForbidden(lower) # 0
             THEN Raised(MsgForbidden, FORBIDDEN_SQL_PATTERNS[FirstForbidden(lower)])
        ELSE Returned(StripSeparator(normalized))

(***************************************************************************)
(* Inputs: texts built from at most MaxPieces pieces.                      *)
(***************************************************************************)
Pieces ==
    { <<"s","e","l","e","c","t">>,
      <<"W","I","T","H">>,
      <<"d","r","o","p">>,
      <<"E","x","e","c">>,
      <<"u","t","e">>,
      <<" ">>, <<Backtick>>, <<";">>, <<"_">> }

RECURSIVE TextsOf(_)
TextsOf(n) ==
    IF n = 0 THEN { << >> }
    ELSE LET shorter == TextsOf(n - 1)
         IN  shorter \cup { t \o p : t \in shorter, p \in Pieces }

\* the candidates the specification names
SampleSelect1Semi == <<"S","E","L","E","C","T"," ","1",";">>
SampleSelect1 == <<"S","E","L","E","C","T"," ","1">>
SampleDropTable == <<"D","R","O","P"," ","T","A","B","L","E"," ","C","u","s","t","o","m","e","r","s">>
SampleTwoStatements == <<"S","E","L","E","C","T"," ","1",";"," ","S","E","L","E","C","T"," ","2">>
SampleSelectName == <<"S","E","L","E","C","T"," ","n","a","m","e"," ","F","R","O","M"," ","C","u","s","t","o","m","e","r","s">>
SampleSemiSpace == <<"S","E","L","E","C","T"," ","1",";"," ">>
SampleFenced == <<Backtick,"S","E","L","E","C","T"," ","1",";",Backtick>>

Samples ==
    { SampleSelect1Semi, SampleSelect1, SampleDropTable, SampleTwoStatements,
      SampleSelectName, SampleSemiSpace, SampleFenced }

Texts == TextsOf(MaxPieces) \cup Samples

\* responses of the model, and the named candidates
Responses == TextsOf(MaxResponsePieces) \cup Samples

(***************************************************************************)
(* State.                                                                  *)
(***************************************************************************)
VARIABLES
    raw,          \* validator harness: the raw candidate
    vres,         \* validator harness: outcome of validate(raw)
    vres2,        \* validator harness: outcome of validate(validate(raw))
    vpc,          \* validator harness: position
    pc,           \* position of main / of the operation in progress
    env,          \* the environment read by os.getenv: what is configured
    qcount,       \* questions read so far
    output_text,  \* response.output_text of the current question
    sql,          \* main's sql, the value generate_sql returned
    conns,        \* every connection pyodbc.connect returned, oldest first
    executed,     \* the texts run_select_query handed to cur.execute (current question)
    max_rows,     \* run_select_query's max_rows argument
    cursor,       \* the cursor after execute: its description and unread rows
    result,       \* the dictionary run_select_query returned
    exc,          \* the exception in flight, or the one that left main
    reported      \* the error main printed for the current question

vvars == <<raw, vres, vres2, vpc>>
mvars == <<pc, env, qcount, output_text, sql, conns, executed, max_rows,
           cursor, result, exc, reported>>
vars == <<raw, vres, vres2, vpc, pc, env, qcount, output_text, sql, conns,
          executed, max_rows, cursor, result, exc, reported>>

NoOutcome == Returned(<< >>)
NoException == [type |-> "", from |-> ""]
NoCursor == [description |-> << >>, rows |-> << >>]
NoResult == [columns |-> << >>, rows |-> << >>, row_count |-> 0]

Min(a, b) == IF a <= b THEN a ELSE b

(***************************************************************************)
(* db.py                                                                   *)
(***************************************************************************)
\* get_connection: DatabaseError when no connection string can be built or
\* when pyodbc.connect fails, else a new open connection of the caller
get_connection(op, reachable) ==
    IF ~env.conn_config \/ ~reachable
    THEN /\ exc' = [type |-> "DatabaseError", from |-> op]
         /\ pc' = "raised"
         /\ UNCHANGED conns
    ELSE /\ conns' = Append(conns, [op |-> op, open |-> TRUE])
         /\ UNCHANGED exc

\* The with statement on a pyodbc connection commits (or, on an exception,
\* rolls back) when the block is left; it does not close the connection.  The
\* connection is closed when the last reference to it goes: here when the
\* frame of the function that holds it in conn and cur is released, which a
\* normal return does at once and an exception in flight does not (its
\* traceback holds the frame).
ReleaseFrame(cs) == [k \in 1..Len(cs) |-> [cs[k] EXCEPT !.open = FALSE]]

\* a driver error (pyodbc.Error) raised inside the with block of op
DriverError(op) ==
    /\ exc' = [type |-> "pyodbc.Error", from |-> op]
    /\ pc' = "raised"
    /\ UNCHANGED conns

\* fetch_schema_context, up to the connection
SchemaConnect ==
    /\ pc = "start"
    /\ \E reachable \in BOOLEAN :
        /\ get_connection("fetch_schema_context", reachable)
        /\ (env.conn_config /\ reachable) => pc' = "schema_body"
    /\ UNCHANGED <<env, qcount, output_text, sql, executed, max_rows, cursor,
                   result, reported>>
    /\ UNCHANGED vvars

\* fetch_schema_context, the two catalog queries and the rendering
SchemaBody ==
    /\ pc = "schema_body"
    /\ \/ /\ conns' = ReleaseFrame(conns)
          /\ pc' = "prompt"
          /\ UNCHANGED exc
       \/ DriverError("fetch_schema_context")
    /\ UNCHANGED <<env, qcount, output_text, sql, executed, max_rows, cursor,
                   result, reported>>
    /\ UNCHANGED vvars

\* the rows a statement yields: row i holds, per column, a value of its own
TableRow(i, width) == [k \in 1..width |-> 10 * i + k]
ColumnLists == { <<"a">>, <<"a", "b">>, <<"a", "a">> }
ResultSets ==
    { [description |-> cols, rows |-> [i \in 1..n |-> TableRow(i, Len(cols))]] :
        cols \in ColumnLists, n \in 0..MaxRows }

\* variant of fetchmany: every row, as fetchall
fetchmany_all(rows, size) == rows

\* cur.fetchmany(size): the next rows, at most size of them
fetchmany(rows, size) == SubSeq(rows, 1, Min(size, Len(rows)))

\* dict(zip(columns, row)): a later column of the same name wins
RowDict(columns, row) ==
    [c \in {columns[k] : k \in 1..Len(columns)} |->
        row[CHOOSE k \in 1..Len(columns) :
                /\ columns[k] = c
                /\ \A j \in 1..Len(columns) : columns[j] = c => j <= k]]

\* run_select_query, up to the connection
RunConnect ==
    /\ pc = "run_connect"
    /\ \E reachable \in BOOLEAN :
        /\ get_connection("run_select_query", reachable)
        /\ (env.conn_config /\ reachable) => pc' = "run_execute"
    /\ UNCHANGED <<env, qcount, output_text, sql, executed, max_rows, cursor,
                   result, reported>>
    /\ UNCHANGED vvars

\* run_select_query: cur.execute(sql) and the read of cur.description
RunExecute ==
    /\ pc = "run_execute"
    /\ executed' = Append(executed, sql)
    /\ \/ /\ \E rs \in ResultSets : cursor' = rs
          /\ pc' = "run_fetch"
          /\ UNCHANGED <<exc, conns>>
       \/ /\ DriverError("run_select_query")
          /\ UNCHANGED cursor
    /\ UNCHANGED <<env, qcount, output_text, sql, max_rows, result, reported>>
    /\ UNCHANGED vvars

\* run_select_query: cur.fetchmany(max_rows), the dictionaries and the return
RunFetch ==
    /\ pc = "run_fetch"
    /\ \/ /\ LET rows == fetchmany(cursor.rows, max_rows)
                 data == [i \in 1..Len(rows) |-> RowDict(cursor.description, rows[i])]
             IN  result' = [columns |-> cursor.description, rows |-> data,
                            row_count |-> Len(data)]
          /\ conns' = ReleaseFrame(conns)
          /\ pc' = "returned"
          /\ UNCHANGED exc
       \/ /\ DriverError("run_select_query")
          /\ UNCHANGED result
    /\ UNCHANGED <<env, qcount, output_text, sql, executed, max_rows, cursor, reported>>
    /\ UNCHANGED vvars

(***************************************************************************)
(* llm.py: generate_sql and explain_results                                *)
(***************************************************************************)
\* variant of generate_sql_result: the response returned as it is
generate_sql_unvalidated(response) == Returned(Strip(response, Whitespace))

\* sql = (response.output_text or "").strip(); return validate_select_only_sql(sql)
generate_sql_result(response) == validate_select_only_sql(Strip(response, Whitespace))

\* generate_sql: the client, the call of the model, the validation
GenerateSql ==
    /\ pc = "generate"
    /\ \/ /\ ~env.api_key
          /\ exc' = [type |-> "LLMError", from |-> "generate_sql"]
          /\ pc' = "raised"
          /\ UNCHANGED <<output_text, sql>>
       \/ /\ env.api_key
          /\ exc' = [type |-> "openai.APIError", from |-> "generate_sql"]
          /\ pc' = "raised"
          /\ UNCHANGED <<output_text, sql>>
       \/ /\ env.api_key
          /\ \E response \in Responses :
              /\ output_text' = response
              /\ LET r == generate_sql_result(response)
                 IN  IF r.raised
                     THEN /\ exc' = [type |-> "LLMError", from |-> "generate_sql"]
                          /\ pc' = "raised"
                          /\ UNCHANGED sql
                     ELSE /\ sql' = r.text
                          /\ pc' = "generated"
                          /\ UNCHANGED exc
    /\ UNCHANGED <<env, qcount, conns, executed, max_rows, cursor, result, reported>>
    /\ UNCHANGED vvars

\* explain_results: the call of the model on the rows
ExplainResults ==
    /\ pc = "explain"
    /\ \/ /\ pc' = "prompt"
          /\ UNCHANGED exc
       \/ /\ exc' = [type |-> "openai.APIError", from |-> "explain_results"]
          /\ pc' = "raised"
    /\ UNCHANGED <<env, qcount, output_text, sql, conns, executed, max_rows,
                   cursor, result, reported>>
    /\ UNCHANGED vvars

(***************************************************************************)
(* app.py                                                                  *)
(***************************************************************************)
\* max_rows=100 in main's call of run_select_query
MainMaxRows == 100

\* input("Question> "): exit ends the loop, an empty line asks again, a
\* question starts an iteration, whose variables are assigned before use
Prompt ==
    /\ pc = "prompt"
    /\ \/ /\ pc' = "done"
          /\ UNCHANGED <<qcount, output_text, sql, executed, cursor, result, reported>>
       \/ UNCHANGED <<pc, qcount, output_text, sql, executed, cursor, result, reported>>
       \/ /\ qcount < MaxQuestions
          /\ qcount' = qcount + 1
          /\ pc' = "generate"
          /\ output_text' = << >>
          /\ sql' = << >>
          /\ executed' = << >>
          /\ cursor' = NoCursor
          /\ result' = NoResult
          /\ reported' = ""
    /\ UNCHANGED <<env, conns, max_rows, exc>>
    /\ UNCHANGED vvars

\* result = run_select_query(sql, max_rows=100)
CallRunSelectQuery ==
    /\ pc = "generated"
    /\ max_rows' = MainMaxRows
    /\ pc' = "run_connect"
    /\ UNCHANGED <<env, qcount, output_text, sql, conns, executed, cursor,
                   result, exc, reported>>
    /\ UNCHANGED vvars

\* the rows are printed and handed to explain_results
PrintRows ==
    /\ pc = "returned"
    /\ pc' = "explain"
    /\ UNCHANGED <<env, qcount, output_text, sql, conns, executed, max_rows,
                   cursor, result, exc, reported>>
    /\ UNCHANGED vvars

\* except DatabaseError (start-up) and except (LLMError, DatabaseError) (loop):
\* the error is printed; start-up returns, the loop asks again.  DatabaseError
\* is raised by get_connection only, before a connection exists.
Except ==
    /\ pc = "raised"
    /\ exc.type \in (IF exc.from = "fetch_schema_context"
                     THEN {"DatabaseError"} ELSE {"LLMError", "DatabaseError"})
    /\ reported' = exc.type
    /\ exc' = NoException
    /\ pc' = IF exc.from = "fetch_schema_context" THEN "done" ELSE "prompt"
    /\ UNCHANGED <<env, qcount, output_text, sql, conns, executed, max_rows,
                   cursor, result>>
    /\ UNCHANGED vvars

\* any other exception matches no except clause and leaves main
Escape ==
    /\ pc = "raised"
    /\ exc.type \notin (IF exc.from = "fetch_schema_context"
                        THEN {"DatabaseError"} ELSE {"LLMError", "DatabaseError"})
    /\ pc' = "crashed"
    /\ UNCHANGED <<env, qcount, output_text, sql, conns, executed, max_rows,
                   cursor, result, exc, reported>>
    /\ UNCHANGED vvars

(***************************************************************************)
(* Specifications.                                                         *)
(***************************************************************************)
HarnessIdle ==
    /\ raw = << >>
    /\ vres = NoOutcome
    /\ vres2 = NoOutcome
    /\ vpc = "idle"

MainIdle ==
    /\ qcount = 0
    /\ output_text = << >>
    /\ sql = << >>
    /\ conns = << >>
    /\ executed = << >>
    /\ max_rows = 0
    /\ cursor = NoCursor
    /\ result = NoResult
    /\ exc = NoException
    /\ reported = ""

\* the session: main from its first line
Init ==
    /\ HarnessIdle
    /\ MainIdle
    /\ pc = "start"
    /\ env \in [conn_config : BOOLEAN, api_key : BOOLEAN]

Next ==
    \/ SchemaConnect
    \/ SchemaBody
    \/ Prompt
    \/ GenerateSql
    \/ CallRunSelectQuery
    \/ RunConnect
    \/ RunExecute
    \/ RunFetch
    \/ PrintRows
    \/ ExplainResults
    \/ Except
    \/ Escape

Spec == Init /\ [][Next]_vars

\* the executor alone: run_select_query on a validated text, any max_rows
InitQ ==
    /\ HarnessIdle
    /\ qcount = 0
    /\ output_text = << >>
    /\ sql \in {SampleSelectName, SampleSelect1}
    /\ conns = << >>
    /\ executed = << >>
    /\ max_rows \in 0..MaxCap
    /\ cursor = NoCursor
    /\ result = NoResult
    /\ exc = NoException
    /\ reported = ""
    /\ pc = "run_connect"
    /\ env \in [conn_config : BOOLEAN, api_key : {TRUE}]

NextQ == RunConnect \/ RunExecute \/ RunFetch

SpecQ == InitQ /\ [][NextQ]_vars

\* the validator alone: validate on any text, then on its own result
InitV ==
    /\ raw \in Texts
    /\ vres = NoOutcome
    /\ vres2 = NoOutcome
    /\ vpc = "input"
    /\ MainIdle
    /\ pc = "idle"
    /\ env = [conn_config |-> FALSE, api_key |-> FALSE]

\* validate(raw)
Validate ==
    /\ vpc = "input"
    /\ vres' = validate_select_only_sql(raw)
    /\ vpc' = "validated"
    /\ UNCHANGED <<raw, vres2>>
    /\ UNCHANGED mvars

\* validate(validate(raw)), when the first call returned
Revalidate ==
    /\ vpc = "validated"
    /\ ~vres.raised
    /\ vres2' = validate_select_only_sql(vres.text)
    /\ vpc' = "revalidated"
    /\ UNCHANGED <<raw, vres>>
    /\ UNCHANGED mvars

NextV == Validate \/ Revalidate

SpecV == InitV /\ [][NextV]_vars

(***************************************************************************)
(* Properties of validate_select_only_sql, checked under SpecV.  They are  *)
(* stated on the characters of the raw text and of the result, with        *)
(* definitions of their own rather than the validator's helpers.           *)
(***************************************************************************)
Validated == vpc \in {"validated", "revalidated"}
Accepted == vpc \in {"validated", "revalidated"} /\ ~vres.raised
FailsWith(msg) == vpc \in {"validated", "revalidated"} /\ vres.raised /\ vres.message = msg

\* the whole words of a text: its maximal runs of word characters
WholeWords(t) ==
    { SubSeq(t, i, j) : <<i, j>> \in
        { ij \in (1..Len(t)) \X (1..Len(t)) :
            /\ ij[1] <= ij[2]
            /\ \A k \in ij[1]..ij[2] : t[k] \in WordChars
            /\ (ij[1] = 1 \/ t[ij[1] - 1] \notin WordChars)
            /\ (ij[2] = Len(t) \/ t[ij[2] + 1] \notin WordChars) } }

ForbiddenVerbs == { FORBIDDEN_SQL_PATTERNS[k] : k \in 1..Len(FORBIDDEN_SQL_PATTERNS) }

\* the forbidden verbs a text holds as whole words, case-insensitively
VerbsIn(t) == { Lower(w) : w \in WholeWords(t) } \cap ForbiddenVerbs

\* the text begins with select or with, case-insensitively
BeginsReadOnly(t) ==
    \/ /\ Len(t) >= 6
       /\ Lower(SubSeq(t, 1, 6)) = <<"s","e","l","e","c","t">>
    \/ /\ Len(t) >= 4
       /\ Lower(SubSeq(t, 1, 4)) = <<"w","i","t","h">>

\* a separator stands somewhere before the final character of the text
SeparatorBeforeEnd(t) == \E i \in 1..(Len(t) - 1) : t[i] = ";"

\* the text is whitespace, then backticks, then whitespace (each possibly none)
IsMargin(t) ==
    \E a \in 0..Len(t) : \E b \in a..Len(t) :
        /\ \A k \in 1..a : t[k] \in Whitespace
        /\ \A k \in (a + 1)..b : t[k] = Backtick
        /\ \A k \in (b + 1)..Len(t) : t[k] \in Whitespace

\* C1: whenever validate returns, the returned text is non-empty, holds no
\* separator at all, begins with select or with (case-insensitively) and holds
\* no forbidden verb as a whole word (case-insensitively).
C1_ValidatedQueryGuarantees ==
    Accepted =>
        /\ vres.text # << >>
        /\ \A i \in 1..Len(vres.text) : vres.text[i] # ";"
        /\ BeginsReadOnly(vres.text)
        /\ VerbsIn(vres.text) = {}

\* a candidate with a trailing separator was accepted and the separator removed
C1_Witness ==
    /\ Accepted
    /\ \E i \in 1..Len(raw) : raw[i] = ";"
    /\ vres.text # << >>

\* C3 (as claimed): every raw text holding a forbidden verb as a whole word
\* fails with the forbidden-operation error carrying a pattern it matches,
\* whatever it starts with.
C3_AlwaysForbiddenOperation ==
    (Validated /\ VerbsIn(raw) # {}) =>
        /\ FailsWith(MsgForbidden)
        /\ vres.pattern \in VerbsIn(raw)

\* C3 (amended): every raw text holding a forbidden verb as a whole word is
\* rejected; the error is the one of the first gate that fails: multiple
\* statements, then statement type, and only then the forbidden operation,
\* which carries the first pattern of the list that matches.
C3_ForbiddenVerbRejected ==
    (Validated /\ VerbsIn(raw) # {}) =>
        LET n == Normalize(raw)
        IN  /\ vres.raised
            /\ SeparatorBeforeEnd(n) => vres.message = MsgMultiple
            /\ (~SeparatorBeforeEnd(n) /\ ~BeginsReadOnly(n)) => vres.message = MsgOnlySelect
            /\ (~SeparatorBeforeEnd(n) /\ BeginsReadOnly(n)) =>
                  /\ vres.message = MsgForbidden
                  /\ vres.pattern \in VerbsIn(raw)
                  /\ \A k \in 1..Len(FORBIDDEN_SQL_PATTERNS) :
                        FORBIDDEN_SQL_PATTERNS[k] = vres.pattern =>
                            \A j \in 1..(k - 1) : FORBIDDEN_SQL_PATTERNS[j] \notin VerbsIn(raw)
            /\ raw = SampleDropTable => vres.message = MsgOnlySelect

\* a select that holds a forbidden verb was rejected with its pattern
C3_Witness ==
    /\ FailsWith(MsgForbidden)
    /\ BeginsReadOnly(raw)
    /\ vres.pattern = <<"d","r","o","p">>

\* C4 (as claimed): every raw text with a separator before its final character
\* fails with the multiple-statements error.
C4_RawSeparatorRejected ==
    (Validated /\ SeparatorBeforeEnd(raw)) => FailsWith(MsgMultiple)

\* C4 (amended): validate fails with the multiple-statements error exactly when
\* the normalized text (whitespace trimmed, backticks stripped, whitespace
\* trimmed) has a separator before its final character; a separator followed
\* only by the trimmed margin is tolerated.
C4_NormalizedSeparatorRejected ==
    Validated =>
        /\ FailsWith(MsgMultiple) <=> SeparatorBeforeEnd(Normalize(raw))
        /\ raw = SampleTwoStatements => FailsWith(MsgMultiple)
        /\ raw \in {SampleSemiSpace, SampleFenced} => vres = Returned(SampleSelect1)

\* two statements were rejected
C4_Witness == FailsWith(MsgMultiple) /\ raw = SampleTwoStatements

\* C5 (as claimed): every raw text whose lower-cased, whitespace-trimmed form
\* does not start with select or with fails with the only-select error.
C5_TrimmedStartRejected ==
    (Validated /\ ~BeginsReadOnly(Strip(raw, Whitespace))) => FailsWith(MsgOnlySelect)

\* C5 (amended): a raw text whose normalized form does not begin with select
\* or with is never accepted, and validate fails with the only-select error
\* exactly when that form is non-empty, has no separator before its final
\* character and does not begin with select or with.
C5_NormalizedStartRejected ==
    Validated =>
        LET n == Normalize(raw)
        IN  /\ ~BeginsReadOnly(n) => vres.raised
            /\ FailsWith(MsgOnlySelect) <=>
                  (n # << >> /\ ~SeparatorBeforeEnd(n) /\ ~BeginsReadOnly(n))

\* a statement of another type was rejected
C5_Witness == FailsWith(MsgOnlySelect) /\ raw = SampleDropTable

\* C6: validate applied to its own result returns that result again.
C6_Idempotent ==
    vpc = "revalidated" => (~vres2.raised /\ vres2.text = vres.text)

\* C10 (as claimed): the accepted text is the raw text trimmed, with at most one
\* backtick taken from each end, and one trailing separator removed.
OneLayerForms(t) ==
    LET t0 == Strip(t, Whitespace)
        DropFirst(u) == IF u # << >> /\ Head(u) = Backtick THEN Tail(u) ELSE u
        DropLast(u) == IF u # << >> /\ u[Len(u)] = Backtick THEN ButLast(u) ELSE u
        DropSep(u) == IF u # << >> /\ u[Len(u)] = ";" THEN ButLast(u) ELSE u
        unfenced == { t0, DropFirst(t0), DropLast(t0), DropFirst(DropLast(t0)) }
        trimmed == unfenced \cup { Strip(u, Whitespace) : u \in unfenced }
    IN  { DropSep(u) : u \in trimmed }

\* C10 (as claimed): the accepted text is one of the one-layer forms of the raw text.
C10_OneLayerStripped == Accepted => vres.text \in OneLayerForms(raw)

\* C10 (amended): the accepted text is a slice of the raw text, case kept.
\* What precedes it is whitespace, backticks (any number), whitespace.  What
\* follows it is an optional separator and then whitespace, backticks (any
\* number), whitespace.  It holds no separator and begins with neither
\* whitespace nor a backtick.  Unless the separator followed it, it does not
\* end with whitespace, and it ends with a backtick only when whitespace
\* stood between that backtick and the backticks that were stripped (the
\* three trimming passes are made once, not repeated).
C10_AcceptedTextIsSlice ==
    Accepted =>
        /\ \E i \in 1..Len(raw) : \E j \in i..Len(raw) :
            LET before == SubSeq(raw, 1, i - 1)
                after == SubSeq(raw, j + 1, Len(raw))
                separated == after # << >> /\ Head(after) = ";"
                margin == IF separated THEN Tail(after) ELSE after
            IN  /\ vres.text = SubSeq(raw, i, j)
                /\ IsMargin(before)
                /\ IsMargin(margin)
                /\ raw[i] \notin Whitespace \cup {Backtick}
                /\ \A k \in i..j : raw[k] # ";"
                /\ ~separated => raw[j] \notin Whitespace
                /\ (~separated /\ raw[j] = Backtick) =>
                      /\ margin # << >>
                      /\ Head(margin) \in Whitespace
                      /\ \E k \in 1..Len(margin) : margin[k] = Backtick
        /\ raw = SampleSelect1Semi => vres.text = SampleSelect1

\* a candidate with two backticks at one end was accepted
C10_Witness ==
    /\ Accepted
    /\ Len(raw) >= 2
    /\ raw[Len(raw)] = Backtick
    /\ raw[Len(raw) - 1] = Backtick

(***************************************************************************)
(* Properties of the session (Spec) and of the executor (SpecQ).           *)
(***************************************************************************)
\* C2: every text run_select_query hands to cur.execute is the value a
\* successful validate returned for the response of the same question, and so
\* has the guarantees of a validated query: no unvalidated text is executed.
C2_ExecutedTextWasValidated ==
    \A k \in 1..Len(executed) :
        LET v == validate_select_only_sql(output_text)
        IN  /\ ~v.raised
            /\ executed[k] = v.text
            /\ executed[k] # << >>
            /\ \A i \in 1..Len(executed[k]) : executed[k][i] # ";"
            /\ BeginsReadOnly(executed[k])
            /\ VerbsIn(executed[k]) = {}

\* the second question's statement was executed, and validation had changed it
C2_Witness ==
    /\ qcount = 2
    /\ Len(executed) = 1
    /\ executed[1] # output_text

\* the positions at which an operation holds its connection
BodyOf(op) ==
    IF op = "fetch_schema_context" THEN {"schema_body"} ELSE {"run_execute", "run_fetch"}

\* C7: a connection is open only while the operation that opened it is in
\* progress: once the operation has returned or raised, it is closed.
C7_ConnectionClosedAfterOperation ==
    \A k \in 1..Len(conns) :
        conns[k].open => (k = Len(conns) /\ pc \in BodyOf(conns[k].op))

\* C8: no error from generate_sql or run_select_query leaves main: each is
\* reported and the next question is asked.
C8_ErrorsAbortOnlyTheQuestion ==
    pc = "crashed" => exc.from \notin {"generate_sql", "run_select_query"}

\* C9: run_select_query returns the first min(n, max_rows) rows of the n rows
\* of the result, in order, each as the mapping of its columns, and row_count
\* is their number; never more than max_rows rows.
C9_RowCap ==
    pc = "returned" =>
        LET n == Len(cursor.rows)
            cols == cursor.description
        IN  /\ result.row_count = (IF n <= max_rows THEN n ELSE max_rows)
            /\ result.row_count <= max_rows
            /\ Len(result.rows) = result.row_count
            /\ result.columns = cols
            /\ \A i \in 1..result.row_count :
                \A k \in 1..Len(cols) :
                    (\A j \in (k + 1)..Len(cols) : cols[j] # cols[k]) =>
                        result.rows[i][cols[k]] = cursor.rows[i][k]
            /\ (n = 5 /\ max_rows = 2) => result.row_count = 2

\* five rows were available and two were returned
C9_Witness ==
    /\ pc = "returned"
    /\ sql = SampleSelectName
    /\ Len(cursor.rows) = 5
    /\ max_rows = 2
    /\ result.row_count = 2

====
